---- MODULE Spec2Model ----
(***************************************************************************)
(* AudioBookBuilder: the build pipeline of abb/audiobook.py                *)
(* (DirectoryBuilder, SingleBuilder) and of the older abb/cat.py           *)
(* (AudiobookBuilder), as a state machine.  One build per behaviour: the   *)
(* inputs are drawn in Init, the constructor validates them, build() runs  *)
(* its phases one external engine call at a time, and the finally clause   *)
(* closes every run.  A fourth kind of run is the list command of          *)
(* MediaCat (MediaCat/list_files.py), which unpacks an archive into a      *)
(* temporary directory through the context manager ArchiveExtractor.       *)
(*                                                                         *)
(* Text (file names, keywords, chapter lines, titles) is modelled as       *)
(* sequences of one-character strings, so that substring tests, splitext,  *)
(* strip, split, int() and str.lower() are computed, not assumed.          *)
(* Durations are counted in ticks, TicksPerMs ticks to the millisecond, so *)
(* that int(x * 1000) truncates.                                           *)
(***************************************************************************)
EXTENDS Integers, Sequences, FiniteSets, TLC

\* ------------------------------------------------------------------ bounds
MaxKeywords == 2
MaxLines == 2
TicksPerMs == 2

\* ------------------------------------------------------------ text helpers
Digit == <<"0", "1", "2", "3", "4", "5", "6", "7", "8", "9">>
UpperCase == <<"A", "B", "C", "D", "E", "F", "G", "H", "I", "J", "K", "L", "M",
               "N", "O", "P", "Q", "R", "S", "T", "U", "V", "W", "X", "Y", "Z">>
LowerCase == <<"a", "b", "c", "d", "e", "f", "g", "h", "i", "j", "k", "l", "m",
               "n", "o", "p", "q", "r", "s", "t", "u", "v", "w", "x", "y", "z">>
WhiteSpace == {" ", "\n", "\t"}

Range(s) == {s[i] : i \in DOMAIN s}

IndexIn(c, alphabet) == CHOOSE i \in DOMAIN alphabet : alphabet[i] = c

\* str.lower()
LowerChar(c) == IF c \in Range(UpperCase) THEN LowerCase[IndexIn(c, UpperCase)] ELSE c
Lower(s) == [i \in DOMAIN s |-> LowerChar(s[i])]

\* str.endswith(suffix)
EndsWith(s, suffix) ==
    /\ Len(s) >= Len(suffix)
    /\ SubSeq(s, Len(s) - Len(suffix) + 1, Len(s)) = suffix

\* `sub in s` for str
Contains(s, sub) ==
    \E i \in 1..(Len(s) - Len(sub) + 1) : SubSeq(s, i, i + Len(sub) - 1) = sub

\* str.strip()
RECURSIVE LStrip(_)
LStrip(s) == IF s # <<>> /\ Head(s) \in WhiteSpace THEN LStrip(Tail(s)) ELSE s
RECURSIVE RStrip(_)
RStrip(s) ==
    IF s # <<>> /\ s[Len(s)] \in WhiteSpace THEN RStrip(SubSeq(s, 1, Len(s) - 1)) ELSE s
Strip(s) == LStrip(RStrip(s))

\* positions of the separator c in s
Positions(s, c) == {i \in DOMAIN s : s[i] = c}
Min(S) == CHOOSE x \in S : \A y \in S : x <= y
Max(S) == CHOOSE x \in S : \A y \in S : x >= y

\* str.split(c, 1): at most one split, at the first c
SplitOnce(s, c) ==
    IF Positions(s, c) = {} THEN <<s>>
    ELSE LET p == Min(Positions(s, c))
         IN <<SubSeq(s, 1, p - 1), SubSeq(s, p + 1, Len(s))>>

\* str.split(c)
RECURSIVE Split(_, _)
Split(s, c) ==
    IF Positions(s, c) = {} THEN <<s>>
    ELSE LET p == Min(Positions(s, c))
         IN <<SubSeq(s, 1, p - 1)>> \o Split(SubSeq(s, p + 1, Len(s)), c)

\* int(str): an optional sign and decimal digits; anything else is a ValueError
IsDigits(s) == s # <<>> /\ \A i \in DOMAIN s : s[i] \in Range(Digit)
Unsigned(s) == IF s # <<>> /\ Head(s) \in {"+", "-"} THEN Tail(s) ELSE s
IsIntLiteral(s) == IsDigits(Unsigned(Strip(s)))
RECURSIVE DigitsValue(_)
DigitsValue(s) ==
    IF s = <<>> THEN 0
    ELSE 10 * DigitsValue(SubSeq(s, 1, Len(s) - 1)) + (IndexIn(s[Len(s)], Digit) - 1)
IntOf(s) ==
    LET t == Strip(s)
    IN IF Head(t) = "-" THEN 0 - DigitsValue(Unsigned(t)) ELSE DigitsValue(Unsigned(t))

\* format(n, "d") for n >= 0
RECURSIVE Decimal(_)
Decimal(n) == IF n < 10 THEN <<Digit[n + 1]>> ELSE Decimal(n \div 10) \o <<Digit[(n % 10) + 1]>>
\* format(n, "02d")
Pad2(n) == IF n < 10 THEN <<"0">> \o Decimal(n) ELSE Decimal(n)

\* os.path.splitext(name)[0]: cut at the last dot, unless the dot leads the name
Splitext0(s) ==
    LET dots == {p \in Positions(s, ".") : \E q \in 1..(p - 1) : s[q] # "."}
    IN IF dots = {} THEN s ELSE SubSeq(s, 1, Max(dots) - 1)

\* ------------------------------------------------------------ input space
\* directory entries: "01.mp3", "02.m4a", "12.M4A"
F01 == <<"0", "1", ".", "m", "p", "3">>
F02 == <<"0", "2", ".", "m", "4", "a">>
F12 == <<"1", "2", ".", "M", "4", "A">>
DirNames == {F01, F02, F12}

\* the directories a build is pointed at
Directories == {{}, {F01}, {F01, F02}, {F01, F02, F12}}

\* lines of the keywords file: "01.mp3", "02", "2"
KwLine01 == <<"0", "1", ".", "m", "p", "3">>
KwLine02 == <<"0", "2">>
KwLine2 == <<"2">>
KeywordLines == {KwLine01, KwLine02, KwLine2}

\* lines of the chapter file: "00:00:00 Intro", "00:01:30 Chapter One",
\* "bad line no time", "00:01:00", "", "01:30 Two"
LineIntro == <<"0", "0", ":", "0", "0", ":", "0", "0", " ", "I", "n", "t", "r", "o", "\n">>
LineChapterOne == <<"0", "0", ":", "0", "1", ":", "3", "0", " ", "C", "h", "a", "p", "t", "e", "r", " ", "O", "n", "e", "\n">>
LineNoTime == <<"b", "a", "d", " ", "l", "i", "n", "e", " ", "n", "o", " ", "t", "i", "m", "e", "\n">>
LineTimeOnly == <<"0", "0", ":", "0", "1", ":", "0", "0", "\n">>
LineBlank == <<"\n">>
LineTwoFields == <<"0", "1", ":", "3", "0", " ", "T", "w", "o", "\n">>
ChapterLines == {LineIntro, LineChapterOne, LineNoTime, LineTimeOnly, LineBlank, LineTwoFields}

\* what ffprobe can report as format.duration, in ticks: a little over 1 ms,
\* a little under 200.001 s
DurationTicks == {TicksPerMs + 1, 200000 * TicksPerMs + TicksPerMs - 1}

Variants == {"Directory", "Single", "Cat", "List"}
Platforms == {"Windows", "Darwin", "Linux"}

\* MediaCat list: the PATH argument names a regular file, a directory or nothing
PathKinds == {"file", "dir", "missing"}
ArcZip == <<"a", ".", "Z", "i", "p">>
ArcTgz == <<"a", ".", "t", "g", "z">>
ArcTarGz == <<"a", ".", "t", "a", "r", ".", "g", "z">>
ArcNoSuffix == <<"a">>
ArchiveNames == {ArcZip, ArcTgz, ArcTarGz, ArcNoSuffix, F01}
\* what reading the archive can come to: it unpacks, it is corrupt, or it has
\* been removed since main_list looked at it
ExtractOutcomes == {"ok", "corrupt", "vanished"}

SeqsUpTo(S, n) == UNION {[1..k -> S] : k \in 0..n}
\* os.listdir(): the entries of a directory in an arbitrary order
Listings(D) == {l \in [1..Cardinality(D) -> D] : \A i, j \in DOMAIN l : l[i] = l[j] => i = j}

\* ------------------------------------------------------------------ values
ExtM4a == <<".", "m", "4", "a">>
ChaptersTxt == <<"c", "h", "a", "p", "t", "e", "r", "s", ".", "t", "x", "t">>
InputsTxt == <<"i", "n", "p", "u", "t", "s", ".", "t", "x", "t">>
JoinedM4b == <<"j", "o", "i", "n", "e", "d", ".", "m", "4", "b">>
SingleM4a == <<"s", "i", "n", "g", "l", "e", ".", "m", "4", "a">>

\* os.path.join(dir, name); None is the value a function without return yields
Join(d, name) == [dir |-> d, name |-> name]
None == [dir |-> "None", name |-> <<>>]

DEFAULT_BITRATE == "196k"

NoError == [kind |-> "none", detail |-> <<>>]
Raise(kind, detail) == [kind |-> kind, detail |-> detail]

\* the bytes of a source file, and of an encoder's output
OriginalContent(path) == [of |-> path, codec |-> "source", bitrate |-> "source", map |-> "all"]
EncodedContent(path, codec, bitrate) == [of |-> path, codec |-> codec, bitrate |-> bitrate, map |-> "0:a"]

NoFile == [exists |-> FALSE, content |-> <<>>]
File(content) == [exists |-> TRUE, content |-> content]
EmptyWorkspace ==
    [chapters |-> NoFile, inputs |-> NoFile, tracks |-> <<>>, joined |-> NoFile, single |-> NoFile]
NoOutput == [state |-> "absent", audio |-> <<>>, chapters |-> <<>>]

VARIABLES
    variant,          \* which builder class, or "List" for MediaCat's list command
    path_kind,        \* what the path given on the command line names
    platform,         \* platform.system()
    re_encode,        \* self.re_encode
    cleanup,          \* build(cleanup=...)
    directory,        \* the entries of the target directory
    listing,          \* the order in which os.listdir returns them
    keyword_lines,    \* the lines of the keywords file
    source_file,      \* SingleBuilder: self.file; List: the PATH argument
    chapter_lines,    \* SingleBuilder: the lines of self.chapters_file
    pc,               \* where the run is
    idx,              \* loop index of the running for loop
    file_keywords,    \* self.file_keywords
    temp_dir,         \* self.temp_dir: "none", "exists" or "removed"
    ws,               \* the files of temp_dir
    matched,          \* matched_files
    match_trace,      \* for each matched entry: the keyword and scan position that chose it
    converted,        \* converted_files, the local list
    memo,             \* self._converted_files
    current_time,     \* chapters(): current_time, in ticks
    probed,           \* the durations probed so far, in ticks
    engine_calls,     \* every call to ffmpeg / ffprobe / shutil.copy, with its outcome
    events,           \* phase starts, returns and failures, in order
    warnings,         \* logging.warning calls
    reported,         \* what the run printed
    error,            \* the exception that ended the run
    output            \* the user-specified output file

inputs == <<variant, path_kind, platform, re_encode, cleanup, directory, listing, keyword_lines, source_file, chapter_lines>>
progress == <<pc, idx, file_keywords, temp_dir, ws, matched, match_trace, converted, memo,
              current_time, probed>>
observed == <<engine_calls, events, warnings, reported, error, output>>
vars == <<inputs, progress, observed>>

Init ==
    /\ variant \in Variants
    /\ path_kind \in CASE variant = "List" -> PathKinds
                    [] variant = "Single" -> {"file"}
                    [] OTHER -> {"dir"}
    /\ platform \in IF variant = "List" THEN {"Linux"} ELSE Platforms
    /\ re_encode \in IF variant = "List" THEN {FALSE} ELSE BOOLEAN
    /\ cleanup \in IF variant = "List" THEN {TRUE} ELSE BOOLEAN
    /\ directory \in IF variant \in {"Single", "List"} THEN {{}} ELSE Directories
    /\ listing \in Listings(directory)
    /\ keyword_lines \in IF variant \in {"Single", "List"} THEN {<<>>}
                        ELSE SeqsUpTo(KeywordLines, MaxKeywords)
    /\ source_file \in CASE variant = "Single" -> {Join("src", f) : f \in DirNames}
                      [] variant = "List" -> {Join("src", f) : f \in ArchiveNames}
                      [] OTHER -> {None}
    /\ chapter_lines \in IF variant = "Single" THEN SeqsUpTo(ChapterLines, MaxLines) ELSE {<<>>}
    /\ pc = "new"
    /\ idx = 0
    /\ file_keywords = <<>>
    /\ temp_dir = "none"
    /\ ws = EmptyWorkspace
    /\ matched = <<>>
    /\ match_trace = <<>>
    /\ converted = <<>>
    /\ memo = <<>>
    /\ current_time = 0
    /\ probed = <<>>
    /\ engine_calls = <<>>
    /\ events = <<>>
    /\ warnings = <<>>
    /\ reported = <<>>
    /\ error = NoError
    /\ output = NoOutput

\* --------------------------------------------------------------- __init__
\* the exception the constructor raises, if any
ConstructError ==
    IF variant = "Directory" /\ directory = {} THEN Raise("ValueError", <<"Directory is empty">>)
    ELSE IF variant = "Directory" /\ keyword_lines = <<>>
         THEN Raise("ValueError", <<"No keywords found in the keywords file.">>)
    ELSE NoError

Construct ==
    /\ pc = "new"
    /\ variant # "List"
    /\ error' = ConstructError
    /\ pc' = IF ConstructError = NoError THEN "created" ELSE "rejected"
    /\ temp_dir' = IF ConstructError = NoError THEN "exists" ELSE "none"
    /\ file_keywords' = IF ConstructError = NoError
                        THEN [i \in DOMAIN keyword_lines |-> Splitext0(keyword_lines[i])]
                        ELSE <<>>
    /\ UNCHANGED <<inputs, idx, ws, matched, match_trace, converted, memo, current_time, probed>>
    /\ UNCHANGED <<engine_calls, events, warnings, reported, output>>

\* ------------------------------------------------------------ pure parts
\* aac_encoder: the AAC encoder of the platform
AacEncoder(system) ==
    IF system = "Windows" THEN "aac_mf" ELSE IF system = "Darwin" THEN "aac_at" ELSE "aac"

\* mutant of UsesCopy: the extension compared without lower()
UsesCopyCaseSensitive(re, input) == ~re /\ EndsWith(input.name, ExtM4a)

\* _convert_to_m4a: the branch taken, copy (TRUE) or encode (FALSE)
UsesCopy(re, input) == ~re /\ EndsWith(Lower(input.name), ExtM4a)

Call(op, src, dst, codec, bitrate, map, ok) ==
    [op |-> op, src |-> src, dst |-> dst, codec |-> codec, bitrate |-> bitrate, map |-> map, ok |-> ok]

\* _convert_to_m4a: the call it makes (shutil.copy or ffmpeg) ...
ConvertCall(re, system, input, out, ok) ==
    IF UsesCopy(re, input)
    THEN Call("copy", input, out, "none", "none", "none", TRUE)
    ELSE Call("encode", input, out, AacEncoder(system), DEFAULT_BITRATE, "0:a", ok)
\* ... and the bytes the output file holds afterwards
ConvertedContent(re, system, input) ==
    IF UsesCopy(re, input) THEN OriginalContent(input)
    ELSE EncodedContent(input, AacEncoder(system), DEFAULT_BITRATE)
\* ... and what the caller gets back: abb/cat.py returns output_path,
\* abb/audiobook.py has no return statement
ConvertReturn(v, out) == IF v = "Cat" THEN out ELSE None

\* mutant of Memoize: the finished list is never stored
MemoizeNothing(v, m, result) == m

\* converted_files: self._converted_files = converted_files, once the loop is
\* over (abb/cat.py keeps the list in a local variable of build only)
Memoize(v, m, result) == IF v = "Directory" THEN result ELSE m

\* mutant of MatchFailure: an empty match result is let through
MatchFailureNever(paths) == NoError

\* the check of the match result: no matched file is fatal
MatchFailure(paths) ==
    IF paths = <<>> THEN Raise("FileNotFoundError", <<"No matching files found.">>) ELSE NoError

\* int(x * 1000) of a duration held in ticks
ToMs(t) == t \div TicksPerMs

Num(ms, fmt) == [ms |-> ms, fmt |-> fmt]
Block(start, end, title, titled) ==
    [start |-> start, end |-> end, title |-> title, titled |-> titled]

\* f"{i+1:02d}. {text}" for the 0-based index i
Title(i, text) == Pad2(i + 1) \o <<".", " ">> \o text

\* mutant of DirectoryChapter: END from the truncated parts, not the truncated sum
DirectoryChapterPerTrack(ct, d, i, kws) ==
    Block(Num(ToMs(ct), "int"), Num(ToMs(ct) + ToMs(d), "int"),
          IF i + 1 \in DOMAIN kws THEN Title(i, kws[i + 1]) ELSE <<>>,
          i + 1 \in DOMAIN kws)

\* cumulative strategy: the [CHAPTER] block of track i (0-based), of duration d,
\* starting at the running sum ct; the title line is the last one written, and
\* self.file_keywords[i] raises IndexError when there is no such keyword
DirectoryChapter(ct, d, i, kws) ==
    Block(Num(ToMs(ct), "int"), Num(ToMs(ct + d), "int"),
          IF i + 1 \in DOMAIN kws THEN Title(i, kws[i + 1]) ELSE <<>>,
          i + 1 \in DOMAIN kws)

\* _match_files: one os.listdir per keyword (the directory does not change
\* during a build, so every scan returns the same order); each entry remembers
\* the keyword index and the scan position that chose it
RECURSIVE ScanFrom(_, _, _, _)
ScanFrom(a, kw, ls, j) ==
    IF j > Len(ls) THEN <<>>
    ELSE (IF Contains(ls[j], kw)
          THEN <<[path |-> Join("dir", ls[j]), kw |-> a, pos |-> j]>>
          ELSE <<>>) \o ScanFrom(a, kw, ls, j + 1)
\* mutant of MatchFrom: the loops nested the other way round, files outside
RECURSIVE KeywordsFrom(_, _, _, _)
KeywordsFrom(K, ls, j, a) ==
    IF a > Len(K) THEN <<>>
    ELSE (IF Contains(ls[j], K[a])
          THEN <<[path |-> Join("dir", ls[j]), kw |-> a, pos |-> j]>>
          ELSE <<>>) \o KeywordsFrom(K, ls, j, a + 1)
RECURSIVE MatchFromFileMajor(_, _, _)
MatchFromFileMajor(K, l, j) ==
    IF j > Len(l) THEN <<>>
    ELSE KeywordsFrom(K, l, j, 1) \o MatchFromFileMajor(K, l, j + 1)

RECURSIVE MatchFrom(_, _, _)
MatchFrom(K, l, a) ==
    IF a > Len(K) THEN <<>>
    ELSE ScanFrom(a, K[a], l, 1) \o MatchFrom(K, l, a + 1)
MatchEntries(K, l) == MatchFrom(K, l, 1)

\* the warning _match_files logs, if any
MatchWarning(v, m, l) ==
    IF v = "Directory"
    THEN (IF Len(m) # Len(l) THEN <<"Not all files matched.">> ELSE <<>>)
    ELSE (IF Len(m) # Cardinality(Range(m))
          THEN <<"Not all files are unique, duplicates found">> ELSE <<>>)

\* explicit-timestamp strategy: one line of the chapter file
LineParts(line) == SplitOnce(Strip(line), " ")
TimeFields(line) == Split(LineParts(line)[1], ":")
\* h, m, s = map(int, fields): int() runs field by field while unpacking
BadFields(fields) == {k \in DOMAIN fields : k <= 4 /\ ~IsIntLiteral(fields[k])}
LineError(line) ==
    IF Len(LineParts(line)) # 2 THEN Raise("InvalidChapterFormat", Strip(line))
    ELSE IF BadFields(TimeFields(line)) # {}
         THEN Raise("InvalidLiteral", TimeFields(line)[Min(BadFields(TimeFields(line)))])
    ELSE IF Len(TimeFields(line)) # 3 THEN Raise("UnpackError", LineParts(line)[1])
    ELSE NoError
LineSeconds(line) ==
    LET f == TimeFields(line) IN IntOf(f[1]) * 3600 + IntOf(f[2]) * 60 + IntOf(f[3])
LineTitle(line) == Strip(LineParts(line)[2])

\* the first exception the parsing loop raises, if any
BadLines(lines) == {i \in DOMAIN lines : LineError(lines[i]) # NoError}
ParseError(lines) == IF BadLines(lines) = {} THEN NoError ELSE LineError(lines[Min(BadLines(lines))])

\* the blocks the second loop writes; duration_ms is int(probe * 1000), and the
\* last END is the float duration * 1000
SingleChapter(lines, i, duration_ms) ==
    Block(Num(LineSeconds(lines[i]) * 1000, "int"),
          IF i + 1 <= Len(lines) THEN Num(LineSeconds(lines[i + 1]) * 1000, "int")
          ELSE Num(duration_ms, "float"),
          Title(i - 1, LineTitle(lines[i])), TRUE)
SingleChapters(lines, duration_ms) ==
    [i \in DOMAIN lines |-> SingleChapter(lines, i, duration_ms)]

\* ---------------------------------------------------------------- build()
\* mutant of Failing: the exception is swallowed and the build goes on
FailingSwallowed(e) ==
    /\ error' = e
    /\ pc' = "raw_audio"

\* an exception leaves the try block: the finally clause is next
Failing(e) ==
    /\ error' = e
    /\ pc' = "finally"

\* build() is entered.  abb/cat.py matches and converts before it writes the
\* chapters; abb/audiobook.py calls self.chapters() first
StartBuild ==
    /\ pc = "created"
    /\ pc' = IF variant = "Cat" THEN "match" ELSE "chapters"
    /\ events' = Append(events, "build.start")
    /\ UNCHANGED <<inputs, idx, file_keywords, temp_dir, ws, matched, match_trace, converted,
                   memo, current_time, probed>>
    /\ UNCHANGED <<engine_calls, warnings, reported, error, output>>

\* DirectoryBuilder.chapters / _generate_chapters: chapters.txt is opened and
\* the header written; the for statement then asks for the converted files
OpenChapters ==
    /\ pc = "chapters"
    /\ variant # "Single"
    /\ ws' = [ws EXCEPT !.chapters = File(<<>>)]
    /\ current_time' = 0
    /\ idx' = 0
    /\ pc' = IF variant = "Directory" /\ memo = <<>> THEN "match" ELSE "probe"
    /\ events' = Append(events, "chapters.start")
    /\ UNCHANGED <<inputs, file_keywords, temp_dir, matched, match_trace, converted, memo, probed>>
    /\ UNCHANGED <<engine_calls, warnings, reported, error, output>>

\* _match_files and the check of its result
MatchFiles ==
    /\ pc = "match"
    /\ LET entries == MatchEntries(file_keywords, listing)
           paths == [i \in DOMAIN entries |-> entries[i].path]
       IN /\ matched' = paths
          /\ match_trace' = [i \in DOMAIN entries |-> [kw |-> entries[i].kw, pos |-> entries[i].pos]]
          /\ warnings' = warnings \o MatchWarning(variant, paths, listing)
          /\ IF MatchFailure(paths) # NoError
             THEN /\ Failing(MatchFailure(paths))
                  /\ events' = Append(events, "fail")
             ELSE /\ pc' = "convert"
                  /\ UNCHANGED <<error, events>>
    /\ idx' = 0
    /\ converted' = <<>>
    /\ UNCHANGED <<inputs, file_keywords, temp_dir, ws, memo, current_time, probed>>
    /\ UNCHANGED <<engine_calls, reported, output>>

\* one turn of the conversion loop: matched file idx becomes "{idx:02d}.m4a"
ConvertFile ==
    /\ pc = "convert"
    /\ idx < Len(matched)
    /\ \E ok \in BOOLEAN :
        LET input == matched[idx + 1]
            out == Join("tmp", Pad2(idx) \o ExtM4a)
            call == ConvertCall(re_encode, platform, input, out, ok)
            result == Append(converted, ConvertReturn(variant, out))
        IN /\ engine_calls' = Append(engine_calls, call)
           /\ IF call.ok
              THEN /\ ws' = [ws EXCEPT !.tracks = Append(@,
                             [name |-> out.name, content |-> ConvertedContent(re_encode, platform, input)])]
                   /\ converted' = result
                   /\ IF idx + 1 = Len(matched)
                      THEN /\ memo' = Memoize(variant, memo, result)
                           /\ pc' = IF variant = "Directory" THEN "probe" ELSE "chapters"
                           /\ idx' = 0
                      ELSE /\ idx' = idx + 1
                           /\ UNCHANGED <<memo, pc>>
                   /\ UNCHANGED <<error, events>>
              ELSE /\ Failing(Raise("TranscodeFailure", input.name))
                   /\ events' = Append(events, "fail")
                   /\ UNCHANGED <<ws, converted, memo, idx>>
    /\ UNCHANGED <<inputs, file_keywords, temp_dir, matched, match_trace, current_time, probed>>
    /\ UNCHANGED <<warnings, reported, output>>

\* one turn of the chapter loop: probe converted file idx, write its block
ProbeTrack ==
    /\ pc = "probe"
    /\ \E ok \in BOOLEAN, d \in DurationTicks :
        LET file == converted[idx + 1]
            block == DirectoryChapter(current_time, d, idx, file_keywords)
        IN IF file = None
           THEN \* ffmpeg.probe(None): subprocess refuses the argument list
                /\ Failing(Raise("TypeError", <<"expected str, bytes or os.PathLike object, not NoneType">>))
                /\ events' = Append(events, "fail")
                /\ UNCHANGED <<engine_calls, ws, current_time, probed, idx>>
           ELSE /\ engine_calls' = Append(engine_calls, Call("probe", file, None, "none", "none", "none", ok))
                /\ IF ~ok
                   THEN /\ Failing(Raise("ProbeFailure", file.name))
                        /\ events' = Append(events, "fail")
                        /\ UNCHANGED <<ws, current_time, probed, idx>>
                   ELSE /\ ws' = [ws EXCEPT !.chapters.content = Append(@, block)]
                        /\ probed' = Append(probed, d)
                        /\ IF ~block.titled
                           THEN /\ Failing(Raise("IndexError", <<"list index out of range">>))
                                /\ events' = Append(events, "fail")
                                /\ UNCHANGED <<current_time, idx>>
                           ELSE /\ current_time' = current_time + d
                                /\ IF idx + 1 = Len(converted)
                                   THEN /\ pc' = "raw_audio"
                                        /\ idx' = 0
                                        /\ events' = Append(events, "chapters.return")
                                   ELSE /\ idx' = idx + 1
                                        /\ UNCHANGED <<pc, events>>
                                /\ UNCHANGED error
    /\ UNCHANGED <<inputs, file_keywords, temp_dir, matched, match_trace, converted, memo>>
    /\ UNCHANGED <<warnings, reported, output>>

\* SingleBuilder.chapters: probe the source, parse the chapter file, write the
\* blocks.  The probe comes first; no block is written before every line parsed
ChaptersSingle ==
    /\ pc = "chapters"
    /\ variant = "Single"
    /\ \E ok \in BOOLEAN, d \in DurationTicks :
        /\ engine_calls' = Append(engine_calls,
                                  Call("probe", source_file, None, "none", "none", "none", ok))
        /\ IF ~ok
           THEN /\ Failing(Raise("ProbeFailure", source_file.name))
                /\ events' = events \o <<"chapters.start", "fail">>
                /\ UNCHANGED <<ws, probed>>
           ELSE /\ probed' = Append(probed, d)
                /\ IF ParseError(chapter_lines) # NoError
                   THEN /\ Failing(ParseError(chapter_lines))
                        /\ events' = events \o <<"chapters.start", "fail">>
                        /\ ws' = [ws EXCEPT !.chapters = File(<<>>)]
                   ELSE /\ ws' = [ws EXCEPT !.chapters = File(SingleChapters(chapter_lines, ToMs(d)))]
                        /\ pc' = "raw_audio"
                        /\ events' = events \o <<"chapters.start", "chapters.return">>
                        /\ UNCHANGED error
    /\ UNCHANGED <<inputs, idx, file_keywords, temp_dir, matched, match_trace, converted, memo,
                   current_time>>
    /\ UNCHANGED <<warnings, reported, output>>

\* the bytes of a file of the workspace, by path
TrackContent(tracks, path) ==
    LET hits == {i \in DOMAIN tracks : tracks[i].name = path.name}
    IN IF hits = {} THEN OriginalContent(path) ELSE tracks[Max(hits)].content

\* DirectoryBuilder.raw_audio / the first half of _concat_audio: inputs.txt,
\* then the concat demuxer writes joined.m4b.  self.converted_files is the
\* memoized list here: chapters() has filled it
Concat ==
    /\ pc = "raw_audio"
    /\ variant # "Single"
    /\ \E ok \in BOOLEAN :
        LET files == IF variant = "Directory" THEN memo ELSE converted
            list == Join("tmp", InputsTxt)
            joined == Join("tmp", JoinedM4b)
        IN /\ engine_calls' = Append(engine_calls, Call("concat", list, joined, "copy", "none", "none", ok))
           /\ IF ok
              THEN /\ ws' = [ws EXCEPT !.inputs = File(files),
                                       !.joined = File([i \in DOMAIN files |-> TrackContent(ws.tracks, files[i])])]
                   /\ pc' = "merge"
                   /\ events' = events \o <<"raw_audio.start", "raw_audio.return">>
                   /\ UNCHANGED error
              ELSE /\ ws' = [ws EXCEPT !.inputs = File(files)]
                   /\ Failing(Raise("ConcatFailure", InputsTxt))
                   /\ events' = events \o <<"raw_audio.start", "fail">>
    /\ UNCHANGED <<inputs, idx, file_keywords, temp_dir, matched, match_trace, converted, memo,
                   current_time, probed>>
    /\ UNCHANGED <<warnings, reported, output>>

\* SingleBuilder.raw_audio: the source becomes single.m4a
RawAudioSingle ==
    /\ pc = "raw_audio"
    /\ variant = "Single"
    /\ \E ok \in BOOLEAN :
        LET out == Join("tmp", SingleM4a)
            call == ConvertCall(re_encode, platform, source_file, out, ok)
        IN /\ engine_calls' = Append(engine_calls, call)
           /\ IF call.ok
              THEN /\ ws' = [ws EXCEPT !.single = File(<<ConvertedContent(re_encode, platform, source_file)>>)]
                   /\ pc' = "merge"
                   /\ events' = events \o <<"raw_audio.start", "raw_audio.return">>
                   /\ UNCHANGED error
              ELSE /\ Failing(Raise("TranscodeFailure", source_file.name))
                   /\ events' = events \o <<"raw_audio.start", "fail">>
                   /\ UNCHANGED ws
    /\ UNCHANGED <<inputs, idx, file_keywords, temp_dir, matched, match_trace, converted, memo,
                   current_time, probed>>
    /\ UNCHANGED <<warnings, reported, output>>

\* what `ffmpeg -i raw -i chapters -map_metadata 1 -c copy -y output_file` can
\* do: finish, fail before it opens the output, or fail after it opened (and
\* truncated) the output
MergeOutcomes == {"ok", "rejected", "aborted"}

\* the value of output_file after the merge command ended
Merged(out, raw, chapters, outcome) ==
    IF outcome = "ok" THEN [state |-> "complete", audio |-> raw, chapters |-> chapters]
    ELSE IF outcome = "aborted" THEN [state |-> "partial", audio |-> <<>>, chapters |-> <<>>]
    ELSE out

\* the merge step of build() / the second half of _concat_audio
Merge ==
    /\ pc = "merge"
    /\ \E outcome \in MergeOutcomes :
        LET raw == IF variant = "Single" THEN ws.single ELSE ws.joined
            src == Join("tmp", IF variant = "Single" THEN SingleM4a ELSE JoinedM4b)
        IN /\ engine_calls' = Append(engine_calls,
                  Call("merge", src, Join("out", <<>>), "copy", "none", "none", outcome = "ok"))
           /\ output' = Merged(output, raw.content, ws.chapters.content, outcome)
           /\ pc' = "finally"
           /\ error' = IF outcome = "ok" THEN NoError ELSE Raise("MergeFailure", <<>>)
           /\ events' = events \o (IF outcome = "ok" THEN <<"merge.start", "merge.return">>
                                   ELSE <<"merge.start", "fail">>)
    /\ UNCHANGED <<inputs, idx, file_keywords, temp_dir, ws, matched, match_trace, converted, memo,
                   current_time, probed>>
    /\ UNCHANGED <<warnings, reported>>

\* mutant of RemoveTempDir: the directory is left in place
RemoveTempDirKeeps(dir) == dir

\* cleanup(): shutil.rmtree(self.temp_dir) when it exists, a warning otherwise
RemoveTempDir(dir) == IF dir = "exists" THEN "removed" ELSE dir

\* the finally clause of build(): cleanup unless suppressed; abb/cat.py prints
\* the path of the workspace it keeps
Finally ==
    /\ pc = "finally"
    /\ temp_dir' = IF cleanup THEN RemoveTempDir(temp_dir) ELSE temp_dir
    /\ ws' = IF cleanup THEN EmptyWorkspace ELSE ws
    /\ warnings' = IF cleanup /\ variant # "Cat" /\ temp_dir # "exists"
                   THEN Append(warnings, "Temporary directory not found") ELSE warnings
    /\ reported' = IF ~cleanup /\ variant = "Cat"
                   THEN Append(reported, "Temporary files kept in: temp_dir") ELSE reported
    /\ events' = Append(events, IF cleanup THEN "cleanup" ELSE "keep")
    /\ pc' = IF error = NoError THEN "Done" ELSE "Failed"
    /\ UNCHANGED <<inputs, idx, file_keywords, matched, match_trace, converted, memo,
                   current_time, probed>>
    /\ UNCHANGED <<engine_calls, error, output>>

\* ------------------------------------------------------- MediaCat list
\* Path.suffix: the last dot of the name and what follows, nothing when the
\* name has no dot after its first character
Suffix(name) ==
    LET dots == {p \in Positions(name, ".") : p > 1}
    IN IF dots = {} THEN <<>> ELSE SubSeq(name, Max(dots), Len(name))
TarSuffixes == {<<".", "t", "a", "r", ".", "g", "z">>, <<".", "t", "g", "z">>,
                <<".", "t", "a", "r", ".", "b", "z", "2">>, <<".", "t", "b", "z", "2">>,
                <<".", "t", "a", "r", ".", "x", "z">>, <<".", "t", "x", "z">>}
SingleFileSuffixes == {<<".", "g", "z">>, <<".", "b", "z", "2">>, <<".", "x", "z">>}

\* _extract_archive: the exception it raises, if any, for an archive of that
\* name whose reading comes to outcome
ExtractError(name, outcome) ==
    LET suffix == Lower(Suffix(name))
    IN IF outcome = "vanished" THEN Raise("FileNotFoundError", <<"Archive not found">>)
       ELSE IF suffix = <<".", "z", "i", "p">>
            THEN (IF outcome = "corrupt" THEN Raise("BadZipFile", name) ELSE NoError)
       ELSE IF suffix \in TarSuffixes
            THEN (IF outcome = "corrupt" THEN Raise("ReadError", name) ELSE NoError)
       ELSE IF suffix \in SingleFileSuffixes
            THEN (IF outcome = "corrupt" THEN Raise("BadGzipFile", name) ELSE NoError)
       ELSE Raise("UnsupportedArchiveFormat", suffix)

\* main_list: the branch on what PATH names; for a regular file the
\* ArchiveExtractor is constructed (temp_dir = None)
MainList ==
    /\ pc = "new"
    /\ variant = "List"
    /\ pc' = CASE path_kind = "file" -> "enter"
              [] path_kind = "dir" -> "list_dir"
              [] OTHER -> "ListFailed"
    /\ error' = IF path_kind = "missing"
                THEN Raise("FileNotFoundError", <<"Path does not exist.">>) ELSE NoError
    /\ UNCHANGED <<inputs, idx, file_keywords, temp_dir, ws, matched, match_trace, converted,
                   memo, current_time, probed>>
    /\ UNCHANGED <<engine_calls, events, warnings, reported, output>>

\* the with statement calls __enter__: mkdtemp, then _extract_archive.  An
\* exception raised by __enter__ leaves the with statement at once: the body
\* is not run and __exit__ is not called
EnterArchive ==
    /\ pc = "enter"
    /\ \E outcome \in ExtractOutcomes :
        /\ error' = ExtractError(source_file.name, outcome)
        /\ pc' = IF ExtractError(source_file.name, outcome) = NoError
                  THEN "with_body" ELSE "ListFailed"
    /\ temp_dir' = "exists"
    /\ UNCHANGED <<inputs, idx, file_keywords, ws, matched, match_trace, converted, memo,
                   current_time, probed>>
    /\ UNCHANGED <<engine_calls, events, warnings, reported, output>>

\* the body of the with statement: ListFiles(temp_dir).list() and the prints,
\* which may raise (the names printed are not modelled)
ListBody ==
    /\ pc = "with_body"
    /\ \E ok \in BOOLEAN :
        error' = IF ok THEN NoError ELSE Raise("ListFailure", <<>>)
    /\ pc' = "exit"
    /\ UNCHANGED <<inputs, idx, file_keywords, temp_dir, ws, matched, match_trace, converted,
                   memo, current_time, probed>>
    /\ UNCHANGED <<engine_calls, events, warnings, reported, output>>

\* __exit__, called when the body is left, normally or by an exception:
\* rmtree of temp_dir if it is set and exists; the exception is not swallowed
ExitArchive ==
    /\ pc = "exit"
    /\ temp_dir' = IF temp_dir = "exists" THEN "removed" ELSE temp_dir
    /\ pc' = IF error = NoError THEN "ListDone" ELSE "ListFailed"
    /\ UNCHANGED <<inputs, idx, file_keywords, ws, matched, match_trace, converted, memo,
                   current_time, probed>>
    /\ UNCHANGED <<engine_calls, events, warnings, reported, error, output>>

\* PATH is a directory: it is listed in place, without a temporary directory
ListDirectory ==
    /\ pc = "list_dir"
    /\ \E ok \in BOOLEAN :
        /\ error' = IF ok THEN NoError ELSE Raise("ListFailure", <<>>)
        /\ pc' = IF ok THEN "ListDone" ELSE "ListFailed"
    /\ UNCHANGED <<inputs, idx, file_keywords, temp_dir, ws, matched, match_trace, converted,
                   memo, current_time, probed>>
    /\ UNCHANGED <<engine_calls, events, warnings, reported, output>>

Next ==
    \/ Construct
    \/ StartBuild
    \/ OpenChapters
    \/ MatchFiles
    \/ ConvertFile
    \/ ProbeTrack
    \/ ChaptersSingle
    \/ Concat
    \/ RawAudioSingle
    \/ Merge
    \/ Finally
    \/ MainList
    \/ EnterArchive
    \/ ListBody
    \/ ExitArchive
    \/ ListDirectory

Spec == Init /\ [][Next]_vars

\* ------------------------------------------------------------- properties
Has(ev) == \E i \in DOMAIN events : events[i] = ev
Returned == pc \in {"Done", "Failed"}
StartEvents == {"chapters.start", "raw_audio.start", "merge.start"}
RECURSIVE SumSeq(_)
SumSeq(q) == IF q = <<>> THEN 0 ELSE Head(q) + SumSeq(Tail(q))

\* C1: once build() of a DirectoryBuilder or SingleBuilder, called with
\* cleanup enabled, has returned or raised (after success, or a failure in
\* chapters(), raw_audio() or the merge), temp_dir no longer exists.
C1_CleanupGuarantee ==
    (Returned /\ cleanup /\ variant \in {"Directory", "Single"})
        => (temp_dir = "removed" /\ ws = EmptyWorkspace)

\* C1 witness: a SingleBuilder build that failed in raw_audio(), after
\* chapters.txt was written, and whose workspace is gone.
C1_Witness ==
    /\ pc = "Failed" /\ cleanup /\ variant = "Single"
    /\ error.kind = "TranscodeFailure"
    /\ Has("chapters.return")
    /\ temp_dir = "removed"

\* C2: in every execution raw_audio() starts only after chapters() returned a
\* chapter-metadata artifact, the merge starts only after raw_audio()
\* returned, and after a failure no phase is started.
C2_PhaseOrdering ==
    /\ \A i \in DOMAIN events :
        /\ events[i] = "raw_audio.start" => \E j \in 1..(i - 1) : events[j] = "chapters.return"
        /\ events[i] = "merge.start" => \E j \in 1..(i - 1) : events[j] = "raw_audio.return"
        /\ events[i] = "chapters.return" => \E j \in 1..(i - 1) : events[j] = "chapters.start"
        /\ events[i] = "fail" => \A j \in (i + 1)..Len(events) : events[j] \notin StartEvents
    /\ pc \in {"raw_audio", "merge"} => ws.chapters.exists
    /\ pc = "Failed" => Has("fail")

\* C2 witness: a build that went through all three phases in order.
C2_Witness ==
    /\ pc = "Done"
    /\ Has("chapters.return") /\ Has("raw_audio.return") /\ Has("merge.return")

\* the files of the directory whose name contains keyword kw
Matching(kw) == {f \in directory : Contains(f, kw)}
EveryKeywordMatchesOne == \A a \in DOMAIN file_keywords : Cardinality(Matching(file_keywords[a])) = 1
AllEngineCallsOk == \A i \in DOMAIN engine_calls : engine_calls[i].ok
\* matching is over: matched and match_trace hold the result of _match_files
MatchDone ==
    /\ variant # "Single"
    /\ pc \in {"convert", "probe", "raw_audio", "merge", "finally", "Done", "Failed"}
           \cup (IF variant = "Cat" THEN {"chapters"} ELSE {})
    /\ (matched = <<>> => error.kind = "FileNotFoundError")

\* C3: when every keyword matches exactly one file of the directory and every
\* external engine call succeeds, DirectoryBuilder.build() ends in Done and
\* the chapter metadata holds exactly len(K) chapters, chapter i titled
\* "{i+1:02d}. K[i]", whatever the order of the directory listing.
C3_DirectoryBuildEndToEnd ==
    (variant = "Directory" /\ Returned /\ EveryKeywordMatchesOne /\ AllEngineCallsOk)
        => /\ pc = "Done"
           /\ output.state = "complete"
           /\ Len(output.chapters) = Len(file_keywords)
           /\ \A i \in DOMAIN output.chapters :
                output.chapters[i].title = Title(i - 1, file_keywords[i])

\* C4: in the result of _match_files every entry selected by K[a] precedes
\* every entry selected by K[b] when a < b; within one keyword the entries are
\* in the order of the directory scan; every entry is a directory entry that
\* contains its keyword, and none is left out.
C4_KeywordOrder ==
    MatchDone =>
        /\ Len(matched) = Len(match_trace)
        /\ \A i \in DOMAIN match_trace :
            /\ match_trace[i].kw \in DOMAIN file_keywords
            /\ match_trace[i].pos \in DOMAIN listing
            /\ matched[i] = Join("dir", listing[match_trace[i].pos])
            /\ Contains(listing[match_trace[i].pos], file_keywords[match_trace[i].kw])
        /\ \A i, j \in DOMAIN match_trace :
            i < j => /\ match_trace[i].kw <= match_trace[j].kw
                     /\ match_trace[i].kw = match_trace[j].kw
                            => match_trace[i].pos < match_trace[j].pos
        /\ \A a \in DOMAIN file_keywords, p \in DOMAIN listing :
            Contains(listing[p], file_keywords[a])
                => \E i \in DOMAIN match_trace : match_trace[i] = [kw |-> a, pos |-> p]

\* C4 witness: two matched entries whose keyword order is the reverse of the
\* order in which the directory listing returned them.
C4_Witness ==
    /\ MatchDone
    /\ \E i, j \in DOMAIN match_trace :
        /\ i < j
        /\ match_trace[i].kw < match_trace[j].kw
        /\ match_trace[i].pos > match_trace[j].pos

\* chapters() of the directory build has returned its artifact
DirectoryChaptersGenerated ==
    variant # "Single" /\ Has("chapters.return") /\ ws.chapters.exists

\* C5: whenever the directory build generates chapters, the keyword used for
\* the title of chapter i is the keyword that selected the i-th matched file,
\* and the name of that file contains it.
C5_ChapterKeywordIsSelector ==
    DirectoryChaptersGenerated =>
        \A i \in DOMAIN ws.chapters.content :
            /\ ws.chapters.content[i].titled
            /\ ws.chapters.content[i].title = Title(i - 1, file_keywords[match_trace[i].kw])
            /\ Contains(matched[i].name, file_keywords[i])

\* C6: in every chapter-metadata artifact, of either strategy, END of chapter i
\* is START of chapter i+1, and END of the last chapter is the total duration
\* in whole milliseconds: the sum of the probed track durations, resp. the
\* probed duration of the source file.
C6_ChapterContiguity ==
    ws.chapters.exists =>
        LET b == ws.chapters.content
            total == SumSeq(probed)
        IN /\ \A i \in 1..(Len(b) - 1) : b[i].end.ms = b[i + 1].start.ms
           /\ b # <<>> => /\ b[Len(b)].end.ms * TicksPerMs <= total
                          /\ total < (b[Len(b)].end.ms + 1) * TicksPerMs

\* C6 witness: a cumulative artifact of two chapters or more whose first two
\* durations have fractions of a millisecond that add up to a whole one.
C6_Witness ==
    /\ variant = "Cat"
    /\ ws.chapters.exists
    /\ Len(ws.chapters.content) >= 2
    /\ (probed[1] % TicksPerMs) + (probed[2] % TicksPerMs) >= TicksPerMs

\* a line of the form "HH:MM:SS title"
WellFormed(line) ==
    LET parts == SplitOnce(Strip(line), " ")
    IN /\ Len(parts) = 2
       /\ Len(Split(parts[1], ":")) = 3
       /\ \A k \in 1..3 : IsDigits(Split(parts[1], ":")[k])
       /\ Strip(parts[2]) # <<>>
Malformed == {i \in DOMAIN chapter_lines : ~WellFormed(chapter_lines[i])}

\* C7: for n >= 1 well-formed lines and a source of probed duration d,
\* SingleBuilder.chapters() emits exactly n chapters, chapter i with
\* start = h*3600+m*60+s of line i, end = the start of line i+1 (d for the
\* last), title "{i+1:02d}. {title}", START and END written as integers of
\* milliseconds.
C7_ExplicitTimestamps ==
    (variant = "Single" /\ Has("chapters.return") /\ ws.chapters.exists
        /\ Len(chapter_lines) >= 1 /\ Malformed = {})
    => LET b == ws.chapters.content
           n == Len(chapter_lines)
       IN /\ Len(b) = n
          /\ \A i \in 1..n :
              /\ b[i].start = Num(LineSeconds(chapter_lines[i]) * 1000, "int")
              /\ b[i].end = IF i < n THEN Num(LineSeconds(chapter_lines[i + 1]) * 1000, "int")
                            ELSE Num(probed[1] \div TicksPerMs, "int")
              /\ b[i].title = Title(i - 1, LineTitle(chapter_lines[i]))

\* C8: when a line of the chapter list is not exactly a time and a title,
\* SingleBuilder.chapters() fails with InvalidChapterFormat naming that line;
\* raw_audio() and the merge are not reached.
C8_MalformedLineRejected ==
    (variant = "Single" /\ probed # <<>> /\ Malformed # {})
    => /\ error = Raise("InvalidChapterFormat", Strip(chapter_lines[Min(Malformed)]))
       /\ ~Has("raw_audio.start")
       /\ ~Has("merge.start")

\* C9: a build that aborts has not written the output destination; the output
\* file is written only by a build that ends in Done.
C9_NoPartialOutput ==
    /\ pc = "Failed" => output.state = "absent"
    /\ output.state # "absent" => (output.state = "complete" /\ error = NoError)

\* the file a conversion call wrote, while the workspace holds it
Produced(c) ==
    IF c.dst.name = SingleM4a THEN ws.single
    ELSE IF \E i \in DOMAIN ws.tracks : ws.tracks[i].name = c.dst.name
         THEN File(<<TrackContent(ws.tracks, c.dst)>>) ELSE NoFile
\* ".m4a" at the end of a name, as written / in any letter case
EndsM4a(name, anyCase) ==
    /\ Len(name) >= 4
    /\ name[Len(name) - 3] = "."
    /\ name[Len(name) - 2] \in (IF anyCase THEN {"m", "M"} ELSE {"m"})
    /\ name[Len(name) - 1] = "4"
    /\ name[Len(name)] \in (IF anyCase THEN {"a", "A"} ELSE {"a"})
TranscoderPolicy(anyCase) ==
    \A i \in DOMAIN engine_calls :
        LET c == engine_calls[i]
        IN c.op \in {"copy", "encode"} =>
            /\ c.op = "copy" <=> (~re_encode /\ EndsM4a(c.src.name, anyCase))
            /\ c.op = "copy" =>
                /\ c.ok
                /\ Produced(c).exists => Produced(c).content = <<OriginalContent(c.src)>>
                /\ \A j \in DOMAIN engine_calls :
                    ~(engine_calls[j].op = "encode" /\ engine_calls[j].dst = c.dst)
            /\ c.op = "encode" =>
                /\ c.codec = CASE platform = "Windows" -> "aac_mf"
                               [] platform = "Darwin" -> "aac_at"
                               [] OTHER -> "aac"
                /\ c.bitrate = DEFAULT_BITRATE
                /\ c.map = "0:a"
                /\ (c.ok /\ Produced(c).exists) =>
                       Produced(c).content = <<EncodedContent(c.src, c.codec, c.bitrate)>>

\* C10 as stated: _convert_to_m4a copies exactly when re_encode is false and
\* the input name ends with ".m4a"; otherwise it runs the encoder with the
\* platform AAC encoder, the configured bitrate and the audio-only mapping.
C10_TranscoderPolicy == TranscoderPolicy(FALSE)

\* C10 amended: as C10, the ".m4a" ending compared without regard to letter
\* case (".M4A" is copied too).
C10_TranscoderPolicyAnyCase == TranscoderPolicy(TRUE)

\* C10 witness: "12.M4A" was copied, byte for byte, with re_encode false.
C10_Witness ==
    \E i \in DOMAIN engine_calls :
        /\ engine_calls[i].op = "copy"
        /\ engine_calls[i].src.name = F12
        /\ Produced(engine_calls[i]).exists
        /\ Produced(engine_calls[i]).content = <<OriginalContent(engine_calls[i].src)>>

\* the transcoder calls of the conversion loop, in the order they were made
IsTrackConversion(c) == c.op \in {"copy", "encode"} /\ c.dst.name # SingleM4a
TrackConversions == SelectSeq(engine_calls, IsTrackConversion)
\* the workspace path of track i (0-based)
TrackPath(i) == Join("tmp", Pad2(i) \o ExtM4a)

SomeKeywordMatchesSeveral ==
    \E a \in DOMAIN file_keywords : Cardinality(Matching(file_keywords[a])) >= 2

\* C12: when a keyword matches several entries of the directory, all of them
\* are in the match result, and a build whose engine calls all succeed ends
\* in Done, without an error, with one chapter per matched entry (there may
\* be more chapters than keywords).
C12_MultiMatchAccepted ==
    (variant # "Single" /\ MatchDone /\ SomeKeywordMatchesSeveral) =>
        /\ \A a \in DOMAIN file_keywords : \A f \in Matching(file_keywords[a]) :
            \E i \in DOMAIN matched : matched[i] = Join("dir", f) /\ match_trace[i].kw = a
        /\ (Returned /\ AllEngineCallsOk) =>
            /\ pc = "Done"
            /\ error = NoError
            /\ Len(output.chapters) = Len(matched)

\* the input of the run has an empty list: no directory entry, no keyword, or
\* (SingleBuilder) no chapter line
EmptyInput ==
    \/ variant = "Directory" /\ (directory = {} \/ keyword_lines = <<>>)
    \/ variant = "Single" /\ chapter_lines = <<>>

\* C13: a DirectoryBuilder given an empty directory or an empty keyword list,
\* and a SingleBuilder given an empty chapter list, never starts the merge and
\* never reaches Done: the run ends with an error and no output.
C13_EmptyInputFatal ==
    EmptyInput =>
        /\ pc \notin {"merge", "Done"}
        /\ ~Has("merge.start")
        /\ output.state = "absent"
        /\ pc \in {"rejected", "Failed"} => error # NoError

\* no entry of the directory contains any keyword
NoEntryMatches ==
    \A f \in directory : \A a \in DOMAIN file_keywords : ~Contains(f, file_keywords[a])
\* _match_files has been called and has returned
MatchTried ==
    /\ variant \in {"Directory", "Cat"}
    /\ pc \notin {"new", "rejected", "created", "match"}
    /\ ~(variant = "Directory" /\ pc = "chapters")
\* what holds of a directory build that found no matching file; the workspace
\* is gone afterwards whenever mustClean holds
NoMatchingFiles(mustClean) ==
    (MatchTried /\ NoEntryMatches) =>
        /\ pc \in {"finally", "Failed"}
        /\ error = Raise("FileNotFoundError", <<"No matching files found.">>)
        /\ TrackConversions = <<>>
        /\ engine_calls = <<>>
        /\ memo = <<>> /\ converted = <<>>
        /\ (pc = "Failed" /\ mustClean) => (temp_dir = "removed" /\ ws = EmptyWorkspace)

\* C14 as stated: when no directory entry contains any keyword, the directory
\* build fails with the no-matching-files error before any transcoder call,
\* nothing is memoized, and the workspace is cleaned up.
C14_NoMatchingFiles == NoMatchingFiles(TRUE)

\* C14 amended: as C14, the workspace being cleaned up when build() was
\* called with cleanup enabled.
C14_NoMatchingFilesCleanupEnabled == NoMatchingFiles(cleanup)

\* C14 witness: a DirectoryBuilder with keywords and a non-empty directory,
\* none of whose entries matches, after build() raised.
C14_Witness ==
    /\ variant = "Directory"
    /\ MatchTried /\ NoEntryMatches
    /\ directory # {} /\ file_keywords # <<>>
    /\ pc = "Failed" /\ cleanup
    /\ temp_dir = "removed"

\* C15: once build(), called with cleanup suppressed, has returned or raised,
\* on whatever path, the workspace is still on disk with the files written so
\* far and its path has been reported to the caller.
C15_WorkspaceRetention ==
    (Returned /\ ~cleanup) =>
        /\ temp_dir = "exists"
        /\ Has("keep") /\ ~Has("cleanup")
        /\ \E i \in DOMAIN reported : reported[i] = "Temporary files kept in: temp_dir"

\* the directory entries whose name contains no keyword
Unmatched ==
    {f \in directory : \A a \in DOMAIN file_keywords : ~Contains(f, file_keywords[a])}

\* C16: in a DirectoryBuilder, once _match_files has returned, no entry
\* without a keyword in its name is in the result; whenever there is such an
\* entry the warning "Not all files matched." was logged, and the unmatched
\* entry is not what makes the build fail.
C16_UnmatchedDroppedAndReported ==
    (variant = "Directory" /\ MatchDone) =>
        /\ \A i \in DOMAIN matched : matched[i].name \notin Unmatched
        /\ Unmatched # {} =>
            /\ \E w \in DOMAIN warnings : warnings[w] = "Not all files matched."
            /\ matched # <<>> => error.kind # "FileNotFoundError"

\* C17: in every artifact SingleBuilder.chapters() returns, for whatever
\* chapter list parses and whatever duration was probed, the START values are
\* non-negative and strictly increasing, and no chapter has END before START.
C17_ChapterOrder ==
    (variant = "Single" /\ Has("chapters.return") /\ ws.chapters.exists) =>
        LET b == ws.chapters.content
        IN /\ \A i \in DOMAIN b : b[i].start.ms >= 0 /\ b[i].end.ms >= b[i].start.ms
           /\ \A i, j \in DOMAIN b : i < j => b[i].start.ms < b[j].start.ms

\* the conversion loop of the directory build has run to its end
ConversionsDone ==
    /\ variant # "Single"
    /\ matched # <<>>
    /\ Len(converted) = Len(matched)

\* C18: once the converted files of N matched files have been computed,
\* element i (0-based) of the list is the path of workspace file
\* "{i:02d}.m4a", produced from the i-th matched file, and inputs.txt as
\* written by raw_audio() has exactly one line "file '<that path>'" per track,
\* in index order.
C18_ConvertedTracksAndConcatList ==
    ConversionsDone =>
        /\ \A i \in DOMAIN converted :
            /\ converted[i] = TrackPath(i - 1)
            /\ TrackConversions[i].src = matched[i] /\ TrackConversions[i].dst = TrackPath(i - 1)
            /\ i \in DOMAIN ws.tracks =>
                   ws.tracks[i] = [name |-> TrackPath(i - 1).name,
                                   content |-> ConvertedContent(re_encode, platform, matched[i])]
        /\ variant = "Directory" => memo = converted
        /\ ws.inputs.exists => ws.inputs.content = [i \in DOMAIN matched |-> TrackPath(i - 1)]

\* C19: once the with statement of main_list over an ArchiveExtractor has
\* been left, normally, by an exception of its body or by an exception out of
\* __enter__ (archive missing, unsupported format, corrupt archive), the
\* temporary directory that __enter__ created does not exist any more.
C19_ArchiveWorkspaceLifecycle ==
    (variant = "List" /\ pc \in {"ListDone", "ListFailed"}) => temp_dir # "exists"

====
